---- MODULE Spec2Model ----
(***************************************************************************)
(* ResotoClient (resotoclient/__init__.py): the authenticated transport    *)
(* layer (_headers, _prepare_session, _get, _post, _put, _patch, _delete)  *)
(* and the staged batch protocol (add_to_batch, list_batches,              *)
(* commit_batch, abort_batch), run against the remote service the          *)
(* specification describes.                                                *)
(***************************************************************************)
EXTENDS Integers, Sequences, FiniteSets, TLC

VARIABLES
    client,       \* the ResotoClient instance: its instance attributes
    resolverCalls,\* number of ca.load_ca_cert invocations
    signCalls,    \* number of encode_jwt_to_headers invocations
    srv,          \* the remote service: batches and graphs
    last,         \* the most recent call on the client and its outcome
    tokens,       \* issue indices of the signatures carried by sent requests
    stagedOk,     \* the <<batch id, GraphUpdate>> add_to_batch returned, in order
    committedOk,  \* the batches for which commit_batch returned
    abortedOk     \* the batches for which abort_batch returned

vars == <<client, resolverCalls, signCalls, srv, last, tokens, stagedOk,
          committedOk, abortedOk>>

---------------------------------------------------------------------------
\* Bounds of the model.

\* Signer invocations in one run.
MaxSigned == 2
\* Batch identifiers the service can allocate.
MaxBatches == 2

---------------------------------------------------------------------------
\* Python values.

\* Python's None.
NONE == "<None>"

\* Truthiness of an Optional[str]: None and "" are falsy.
Truthy(x) == x # NONE /\ x # ""

\* str.startswith on strings held as sequences of characters.
startswith(s, prefix) ==
    /\ Len(s) >= Len(prefix)
    /\ SubSeq(s, 1, Len(prefix)) = prefix

\* A dict is the sequence of its <<key, value>> items in insertion order.
DictHas(d, k) == \E i \in 1..Len(d) : d[i][1] = k

\* d[k] = v: an existing key keeps its position, a new key is appended.
DictSet(d, k, v) ==
    IF DictHas(d, k)
    THEN [i \in 1..Len(d) |-> IF d[i][1] = k THEN <<k, v>> ELSE d[i]]
    ELSE Append(d, <<k, v>>)

\* d.update(other), keys compared exactly (a plain dict is case-sensitive).
RECURSIVE DictUpdate(_, _)
DictUpdate(d, other) ==
    IF other = <<>> THEN d
    ELSE DictUpdate(DictSet(d, Head(other)[1], Head(other)[2]), Tail(other))

\* The attributes class ResotoClient defines.
ClassAttrs ==
    {"__init__", "_headers", "_prepare_session", "_get", "_post", "_put",
     "_patch", "_delete", "model", "update_model", "list_graphs", "get_graph",
     "create_graph", "delete_graph", "create_node", "patch_node", "get_node",
     "delete_node", "patch_nodes", "merge_graph", "add_to_batch",
     "list_batches", "commit_batch", "abort_batch", "search_graph_raw",
     "search_graph_explain", "search_list", "search_graph",
     "search_aggregate", "subscribers", "subscribers_for_event", "subscriber",
     "update_subscriber", "add_subscription", "delete_subscription",
     "delete_subscriber", "cli_evaluate", "cli_execute", "cli_info",
     "configs", "config", "put_config", "patch_config", "delete_config",
     "get_configs_model", "update_configs_model", "list_configs_validation",
     "get_config_validation", "put_config_validation", "ping", "ready"}

\* Attribute lookup self.<name> succeeds on an instance or a class attribute.
hasattr(c, name) == name \in c.attrs \/ name \in ClassAttrs

\* The exception classes a call can end with.
AttributeError == "AttributeError"
TypeError == "TypeError"
ConnectionError == "requests.ConnectionError"

---------------------------------------------------------------------------
\* Inputs.

HttpsUrl == <<"h", "t", "t", "p", "s", ":", "/", "/", "c">>
HttpUrl == <<"h", "t", "t", "p", ":", "/", "/", "c">>
Urls == {HttpsUrl, HttpUrl}

Psks == {NONE, "", "s3cret"}

Graphs == {"g1", "g2"}
Nodes == {"nodeA"}
Updates == {{n} : n \in Nodes}

IdNames == <<"b1", "b2", "b3", "b4">>
BatchIds == {IdNames[i] : i \in 1..MaxBatches}

\* Header sets a caller hands to _get/_post; <<>> is "no headers".
CallerHeaders ==
    {<<>>, << <<"Content-Type", "text/plain">> >>, << <<"Accept", "text/plain">> >>}

\* What the network does with a request: deliver it, or fail.
NetOutcomes == {"up", "down"}

---------------------------------------------------------------------------
\* Collaborators of the client that live outside resotoclient/__init__.py.

\* jwt_utils.encode_jwt_to_headers(headers, payload, psk): the Credential
\* Signer. It adds the signed header derived from the secret and the claims;
\* n is the invocation's own issue index, so every invocation yields its own
\* signature.
encode_jwt_to_headers(headers, payload, psk, n) ==
    DictSet(headers, "Authorization",
            [scheme |-> "Bearer", key |-> psk, claims |-> payload, iat |-> n])

\* ca.load_ca_cert(resotocore_uri, psk): the Trust Anchor Resolver. The
\* bootstrap fetch either yields the reference of the pinned certificate of
\* that endpoint or fails with TrustAnchorUnavailable.
BootOutcomes == {"fetched", "unavailable"}
TrustAnchorUnavailable == "TrustAnchorUnavailable"
load_ca_cert(resotocore_uri, psk, boot) ==
    IF boot = "fetched"
    THEN [exc |-> NONE, path |-> "ca.pem"]
    ELSE [exc |-> TrustAnchorUnavailable, path |-> NONE]

---------------------------------------------------------------------------
\* The transport layer.

\* requests.Session(): verification against the system CA bundle (True) and
\* the library's default headers.
NewSession ==
    [verify |-> "True", headers |-> << <<"User-Agent", "python-requests">> >>]

\* A header name as the wire (requests' case-insensitive header dict) sees it.
LowerName(k) ==
    CASE k \in {"Content-type", "Content-Type"} -> "content-type"
      [] k = "Accept" -> "accept"
      [] k = "Authorization" -> "authorization"
      [] k = "User-Agent" -> "user-agent"
      [] OTHER -> k

\* The headers sent for session headers d: names compare case-insensitively
\* and the item inserted last wins.
WireHeaders(d) ==
    LET names == {LowerName(d[i][1]) : i \in 1..Len(d)}
        lastIdx(n) ==
            CHOOSE i \in 1..Len(d) :
                /\ LowerName(d[i][1]) = n
                /\ \A j \in (i + 1)..Len(d) : LowerName(d[j][1]) # n
    IN  [n \in names |-> d[lastIdx(n)][2]]

\* _headers testing "self.psk is not None": an empty secret is signed with.
_headers_sign_unless_none(c, n) ==
    LET headers == << <<"Content-type", "application/json">>,
                      <<"Accept", "application/x-ndjson">> >>
    IN  IF c.psk # NONE
        THEN [headers |-> encode_jwt_to_headers(headers, <<>>, c.psk, n),
              signed |-> 1]
        ELSE [headers |-> headers, signed |-> 0]

\* ResotoClient._headers: the base headers, signed when self.psk is truthy.
\* signed counts the signer invocations made.
_headers(c, n) ==
    LET headers == << <<"Content-type", "application/json">>,
                      <<"Accept", "application/x-ndjson">> >>
    IN  IF Truthy(c.psk)
        THEN [headers |-> encode_jwt_to_headers(headers, <<>>, c.psk, n),
              signed |-> 1]
        ELSE [headers |-> headers, signed |-> 0]

\* _prepare_session without "session.verify = self.ca_cert_path".
_prepare_session_no_pin(c, session, n) ==
    IF ~hasattr(c, "ca_cert_path")
    THEN [exc |-> AttributeError, session |-> session, signed |-> 0]
    ELSE LET h == _headers(c, n)
         IN  [exc |-> NONE,
              session |-> [session EXCEPT !.headers = h.headers],
              signed |-> h.signed]

\* ResotoClient._prepare_session: reads self.ca_cert_path (AttributeError
\* when __init__ never assigned it), pins it when truthy, replaces the
\* session's headers by self._headers().
_prepare_session(c, session, n) ==
    IF ~hasattr(c, "ca_cert_path")
    THEN [exc |-> AttributeError, session |-> session, signed |-> 0]
    ELSE LET s1 == IF Truthy(c.ca_cert_path)
                   THEN [session EXCEPT !.verify = c.ca_cert_path]
                   ELSE session
             h == _headers(c, n)
         IN  [exc |-> NONE,
              session |-> [s1 EXCEPT !.headers = h.headers],
              signed |-> h.signed]

NoReq ==
    [method |-> NONE, url |-> [base |-> <<>>, path |-> <<>>], params |-> {},
     headers |-> <<>>, verify |-> NONE, body |-> {}]

\* The request session s issues: s.get / s.post / s.put / s.patch / s.delete
\* (self.base_url + path, json=, params=).
Request(method, c, path, params, json, s) ==
    [method |-> method, url |-> [base |-> c.base_url, path |-> path],
     params |-> params, headers |-> WireHeaders(s.headers),
     verify |-> s.verify, body |-> json]

\* What a transport method hands to the network: the exception raised before
\* anything was sent, or the request.
Prepared(method, c, path, params, json, p, s) ==
    IF p.exc # NONE
    THEN [exc |-> p.exc, signed |-> p.signed, req |-> NoReq]
    ELSE [exc |-> NONE, signed |-> p.signed,
          req |-> Request(method, c, path, params, json, s)]

\* ResotoClient._get: s.headers.update() is called without the caller's
\* headers, json is not a parameter.
_get(c, path, params, headers, n) ==
    LET p == _prepare_session(c, NewSession, n)
        s == [p.session EXCEPT !.headers = DictUpdate(@, <<>>)]
    IN  Prepared("GET", c, path, params, {}, p, s)

\* ResotoClient._post: s.headers.update(headers or {}).
_post(c, path, json, params, headers, n) ==
    LET p == _prepare_session(c, NewSession, n)
        s == [p.session EXCEPT !.headers = DictUpdate(@, headers)]
    IN  Prepared("POST", c, path, params, json, p, s)

\* ResotoClient._put, _patch, _delete: no caller headers.
_put(c, path, json, params, n) ==
    LET p == _prepare_session(c, NewSession, n)
    IN  Prepared("PUT", c, path, params, json, p, p.session)

_patch(c, path, json, n) ==
    LET p == _prepare_session(c, NewSession, n)
    IN  Prepared("PATCH", c, path, {}, json, p, p.session)

_delete(c, path, n) ==
    LET p == _prepare_session(c, NewSession, n)
    IN  Prepared("DELETE", c, path, {}, {}, p, p.session)

---------------------------------------------------------------------------
\* The remote service, as the wire protocol of the specification gives it.

NoBatch == [state |-> "none", graph |-> NONE, changes |-> {}]

ServerInit ==
    [batches |-> [b \in BatchIds |-> NoBatch], graphs |-> [g \in Graphs |-> {}]]

\* The GraphUpdate record: the counts staged so far.
GraphUpdate(n) ==
    [nodes_created |-> n, nodes_updates |-> 0, nodes_deleted |-> 0,
     edges_created |-> 0, edges_updated |-> 0, edges_deleted |-> 0]

NoResp == [status_code |-> 0, headers |-> {}, text |-> NONE, json |-> {}]

Response(status, headers, text, json) ==
    [status_code |-> status, headers |-> headers, text |-> text, json |-> json]

Rejected(s, status, text) ==
    [resp |-> Response(status, {}, text, {}), srv |-> s]

\* The value of a query parameter, None when it is not given.
ParamGet(params, k) ==
    IF \E q \in params : q[1] = k
    THEN (CHOOSE q \in params : q[1] = k)[2]
    ELSE NONE

\* The staged batches of a graph.
StagedIn(s, g) ==
    {b \in BatchIds : s.batches[b].state = "staged" /\ s.batches[b].graph = g}

IsStaged(s, g, b) == b \in StagedIn(s, g)

\* POST /graph/{g}/batch/merge?batch_id=: allocates an identifier when none
\* is given (returned in the BatchId header), extends the staged batch
\* otherwise; an identifier that is not staged is rejected.
ServerStage(s, g, params, update) ==
    LET bid == ParamGet(params, "batch_id")
        free == {i \in 1..MaxBatches : s.batches[IdNames[i]].state = "none"}
        fresh == IdNames[CHOOSE i \in free : \A j \in free : i <= j]
        id == IF bid = NONE THEN fresh ELSE bid
        changes == IF bid = NONE THEN update
                   ELSE s.batches[bid].changes \cup update
    IN  IF bid = NONE /\ free = {} THEN Rejected(s, 507, "no batch available")
        ELSE IF bid # NONE /\ ~IsStaged(s, g, bid)
        THEN Rejected(s, 404, "unknown batch")
        ELSE [resp |-> Response(200, {<<"BatchId", id>>}, "",
                                GraphUpdate(Cardinality(changes))),
              srv |-> [s EXCEPT !.batches[id] =
                          [state |-> "staged", graph |-> g,
                           changes |-> changes]]]

\* GET /graph/{g}/batch: the staged batches of the graph.
ServerList(s, g) ==
    [resp |-> Response(200, {}, "", StagedIn(s, g)), srv |-> s]

\* GET or POST /graph/{g}/batch/{b}: commit. The staged changes become part
\* of the graph (each node with the batch that merged it) and the identifier
\* becomes invalid.
ServerCommit(s, g, b) ==
    IF ~IsStaged(s, g, b) THEN Rejected(s, 404, "unknown batch")
    ELSE [resp |-> Response(200, {}, "", {}),
          srv |-> [s EXCEPT !.batches[b].state = "committed",
                            !.graphs[g] =
                                @ \cup {<<n, b>> : n \in s.batches[b].changes}]]

\* DELETE /graph/{g}/batch/{b}: abort. The staged changes are discarded.
ServerAbort(s, g, b) ==
    IF ~IsStaged(s, g, b) THEN Rejected(s, 404, "unknown batch")
    ELSE [resp |-> Response(200, {}, "", {}),
          srv |-> [s EXCEPT !.batches[b].state = "aborted"]]

IsBatchPath(path, n) ==
    Len(path) = n /\ path[1] = "graph" /\ path[3] = "batch"

\* The service's answer to a request, and its state afterwards.
Server(s, req) ==
    LET path == req.url.path
        m == req.method
        merge == IsBatchPath(path, 4) /\ path[4] = "merge"
        one == IsBatchPath(path, 4) /\ path[4] # "merge"
    IN  IF merge /\ m = "POST"
        THEN ServerStage(s, path[2], req.params, req.body)
        ELSE IF IsBatchPath(path, 3) /\ m = "GET"
        THEN ServerList(s, path[2])
        ELSE IF one /\ m \in {"GET", "POST"}
        THEN ServerCommit(s, path[2], path[4])
        ELSE IF one /\ m = "DELETE"
        THEN ServerAbort(s, path[2], path[4])
        ELSE IF path = <<"system", "ping">> /\ m = "GET"
        THEN [resp |-> Response(200, {}, "pong", {}), srv |-> s]
        ELSE Rejected(s, 405, "method not allowed")

---------------------------------------------------------------------------
\* One round trip: the prepared request goes out (sent) unless preparing it
\* raised; the network either fails (no response: connection refused, timeout,
\* TLS verification failure) or delivers it to the service (got).

RoundTrip(t, net) ==
    IF t.exc # NONE
    THEN [exc |-> t.exc, sent |-> FALSE, got |-> FALSE, signed |-> t.signed,
          req |-> t.req, resp |-> NoResp, srv |-> srv]
    ELSE IF net = "down"
    THEN [exc |-> ConnectionError, sent |-> TRUE, got |-> FALSE,
          signed |-> t.signed, req |-> t.req, resp |-> NoResp, srv |-> srv]
    ELSE LET a == Server(srv, t.req)
         IN  [exc |-> NONE, sent |-> TRUE, got |-> TRUE, signed |-> t.signed,
              req |-> t.req, resp |-> a.resp, srv |-> a.srv]

\* How a call ends.
Return(value) == [kind |-> "return", exc |-> NONE, value |-> value]
Raise(exc, text) == [kind |-> "raise", exc |-> exc, value |-> text]

\* The network outcomes a prepared request can meet; the network plays no
\* part when preparing the request raised.
Nets(t) == IF t.exc # NONE THEN {"none"} ELSE NetOutcomes

\* A call whose transport raised ends with that exception.
Outcome(r, onResponse) ==
    IF r.exc # NONE THEN Raise(r.exc, r.exc) ELSE onResponse

\* A call that raised before it reached the transport layer.
NotSent(exc) ==
    [exc |-> exc, sent |-> FALSE, got |-> FALSE, signed |-> 0, req |-> NoReq,
     resp |-> NoResp, srv |-> srv]

---------------------------------------------------------------------------
\* The client.

NoClient ==
    [constructed |-> "no", attrs |-> {}, base_url |-> <<>>, psk |-> NONE,
     ca_cert_path |-> NONE, exc |-> NONE]

NoCall ==
    [op |-> NONE, graph |-> NONE, batch_id |-> NONE, headers |-> <<>>,
     afterCommit |-> FALSE, afterAbort |-> FALSE,
     sent |-> FALSE, got |-> FALSE, req |-> NoReq, resp |-> NoResp,
     result |-> Return(NONE)]

Ready == client.constructed = "yes" /\ signCalls < MaxSigned

\* A batch as a successful commit_batch/abort_batch call found it.
Settled(graph, batch_id) ==
    [graph |-> graph, batch_id |-> batch_id,
     was |-> srv.batches[batch_id].state,
     changes |-> srv.batches[batch_id].changes]

\* Whether one of the calls recorded in log was made on (graph, batch_id).
MadeOn(log, graph, batch_id) ==
    \E c \in log : c.graph = graph /\ c.batch_id = batch_id

\* The bookkeeping of one finished call op(graph, batch_id) with round trip r:
\* the call and its outcome become `last`, the service moves to its new state,
\* and the histories of successful calls grow.
Finish(op, graph, batch_id, headers, r, result) ==
    /\ last' = [op |-> op, graph |-> graph, batch_id |-> batch_id,
                headers |-> headers,
                afterCommit |-> MadeOn(committedOk, graph, batch_id),
                afterAbort |-> MadeOn(abortedOk, graph, batch_id),
                sent |-> r.sent, got |-> r.got,
                req |-> r.req, resp |-> r.resp, result |-> result]
    /\ srv' = r.srv
    /\ signCalls' = signCalls + r.signed
    /\ tokens' = IF r.sent /\ "authorization" \in DOMAIN r.req.headers
                 THEN Append(tokens, r.req.headers["authorization"].iat)
                 ELSE tokens
    /\ stagedOk' = IF op = "add_to_batch" /\ result.kind = "return"
                   THEN Append(stagedOk, result.value)
                   ELSE stagedOk
    /\ committedOk' = IF op = "commit_batch" /\ result.kind = "return"
                      THEN committedOk \cup {Settled(graph, batch_id)}
                      ELSE committedOk
    /\ abortedOk' = IF op = "abort_batch" /\ result.kind = "return"
                    THEN abortedOk \cup {Settled(graph, batch_id)}
                    ELSE abortedOk
    /\ UNCHANGED <<client, resolverCalls>>

\* ResotoClient.__init__: the trust anchor is resolved, and ca_cert_path
\* assigned, only when the URL starts with "https".
__init__(url, psk, boot) ==
    /\ client.constructed = "no"
    /\ LET https == startswith(url, <<"h", "t", "t", "p", "s">>)
           ca == load_ca_cert(url, psk, boot)
           self == [NoClient EXCEPT !.attrs = {"base_url", "psk"},
                                    !.base_url = url, !.psk = psk]
       IN  /\ client' =
                 IF ~https THEN [self EXCEPT !.constructed = "yes"]
                 ELSE IF ca.exc # NONE
                 THEN [self EXCEPT !.constructed = "failed", !.exc = ca.exc]
                 ELSE [self EXCEPT !.constructed = "yes",
                                   !.attrs = @ \cup {"ca_cert_path"},
                                   !.ca_cert_path = ca.path]
           /\ resolverCalls' = resolverCalls + (IF https THEN 1 ELSE 0)
    /\ UNCHANGED <<signCalls, srv, last, tokens, stagedOk, committedOk,
                 abortedOk>>

\* ResotoClient.add_to_batch: self.graph_to_json is looked up first; then the
\* update is POSTed to /graph/{graph}/batch/merge, with batch_id as a query
\* parameter when it is truthy.
add_to_batch(graph, update, batch_id) ==
    /\ Ready
    /\ IF ~hasattr(client, "graph_to_json")
       THEN Finish("add_to_batch", graph, batch_id, <<>>,
                   NotSent(AttributeError),
                   Raise(AttributeError, "graph_to_json"))
       ELSE LET js == update
                props == IF Truthy(batch_id) THEN {<<"batch_id", batch_id>>}
                         ELSE {}
                t == _post(client, <<"graph", graph, "batch", "merge">>, js,
                           props, <<>>, signCalls + 1)
            IN  \E net \in Nets(t) :
                    LET r == RoundTrip(t, net)
                        result ==
                            Outcome(r, IF r.resp.status_code = 200
                                       THEN Return(<<ParamGet(r.resp.headers,
                                                              "BatchId"),
                                                     r.resp.json>>)
                                       ELSE Raise(AttributeError, r.resp.text))
                    IN  Finish("add_to_batch", graph, batch_id, <<>>, r, result)

\* ResotoClient.list_batches: GET /graph/{graph}/batch.
list_batches(graph) ==
    /\ Ready
    /\ LET t == _get(client, <<"graph", graph, "batch">>, {}, <<>>,
                     signCalls + 1)
       IN  \E net \in Nets(t) :
               LET r == RoundTrip(t, net)
                   result == Outcome(r, IF r.resp.status_code = 200
                                        THEN Return(r.resp.json)
                                        ELSE Raise(AttributeError, r.resp.text))
               IN  Finish("list_batches", graph, NONE, <<>>, r, result)

\* The request commit_batch issues: self._get(f"/graph/{graph}/batch/{batch_id}").
commit_request(c, graph, batch_id, n) ==
    _get(c, <<"graph", graph, "batch", batch_id>>, {}, <<>>, n)

\* commit_batch with the status test dropped: every response is a success.
commit_batch_any_status(graph, batch_id) ==
    /\ Ready
    /\ LET t == commit_request(client, graph, batch_id, signCalls + 1)
       IN  \E net \in Nets(t) :
               LET r == RoundTrip(t, net)
                   result == Outcome(r, Return(NONE))
               IN  Finish("commit_batch", graph, batch_id, <<>>, r, result)

\* ResotoClient.commit_batch: returns None on status 200, raises
\* AttributeError(response.text) otherwise.
commit_batch(graph, batch_id) ==
    /\ Ready
    /\ LET t == commit_request(client, graph, batch_id, signCalls + 1)
       IN  \E net \in Nets(t) :
               LET r == RoundTrip(t, net)
                   result == Outcome(r, IF r.resp.status_code = 200
                                        THEN Return(NONE)
                                        ELSE Raise(AttributeError, r.resp.text))
               IN  Finish("commit_batch", graph, batch_id, <<>>, r, result)

\* The request abort_batch issues: self._get(f"/graph/{graph}/batch/{batch_id}").
abort_request(c, graph, batch_id, n) ==
    _get(c, <<"graph", graph, "batch", batch_id>>, {}, <<>>, n)

\* ResotoClient.abort_batch: returns None on status 200, raises
\* AttributeError(response.text) otherwise.
abort_batch(graph, batch_id) ==
    /\ Ready
    /\ LET t == abort_request(client, graph, batch_id, signCalls + 1)
       IN  \E net \in Nets(t) :
               LET r == RoundTrip(t, net)
                   result == Outcome(r, IF r.resp.status_code = 200
                                        THEN Return(NONE)
                                        ELSE Raise(AttributeError, r.resp.text))
               IN  Finish("abort_batch", graph, batch_id, <<>>, r, result)

\* Binding of a call's keyword arguments to a signature: every argument must
\* name a parameter and every required parameter must be given.
Binds(passed, params, required) ==
    passed \subseteq params /\ required \subseteq passed

\* ResotoClient.cli_execute: calls self._post(path, data=, params=, headers=)
\* with the plain-text content type.
cli_execute(graph) ==
    /\ Ready
    /\ LET headers == << <<"Content-Type", "text/plain">> >>
       IN  IF ~Binds({"path", "data", "params", "headers"},
                     {"path", "json", "params", "headers"}, {"path", "json"})
           THEN Finish("cli_execute", graph, NONE, headers,
                       NotSent(TypeError), Raise(TypeError, "data"))
           ELSE LET props == {<<"graph", graph>>, <<"section", "reported">>}
                    t == _post(client, <<"cli", "execute">>, {}, props,
                               headers, signCalls + 1)
                IN  \E net \in Nets(t) :
                        LET r == RoundTrip(t, net)
                            result ==
                                Outcome(r, IF r.resp.status_code = 200
                                           THEN Return(r.resp.json)
                                           ELSE Raise(AttributeError,
                                                      r.resp.text))
                        IN  Finish("cli_execute", graph, NONE, headers, r,
                                   result)

\* A caller of the transport layer itself: one of _get, _post, _put, _patch,
\* _delete on /system/ping, _get and _post with the caller's headers. The raw
\* response is returned, whatever its status.
TransportMethods == {"_get", "_post", "_put", "_patch", "_delete"}

transport(m, headers) ==
    /\ Ready
    /\ m \in {"_get", "_post"} \/ headers = <<>>
    /\ LET path == <<"system", "ping">>
           n == signCalls + 1
           t == CASE m = "_get" -> _get(client, path, {}, headers, n)
                  [] m = "_post" -> _post(client, path, {}, {}, headers, n)
                  [] m = "_put" -> _put(client, path, {}, {}, n)
                  [] m = "_patch" -> _patch(client, path, {}, n)
                  [] m = "_delete" -> _delete(client, path, n)
       IN  \E net \in Nets(t) :
               LET r == RoundTrip(t, net)
               IN  Finish(m, NONE, NONE, headers, r,
                          Outcome(r, Return(r.resp.status_code)))

---------------------------------------------------------------------------
\* Other callers of the same service: they stage into and abort batches.

OtherCallerStage(graph, update, batch_id) ==
    LET a == ServerStage(srv, graph,
                         IF batch_id = NONE THEN {}
                         ELSE {<<"batch_id", batch_id>>}, update)
    IN  /\ a.resp.status_code = 200
        /\ srv' = a.srv
        /\ UNCHANGED <<client, resolverCalls, signCalls, last, tokens,
                       stagedOk, committedOk, abortedOk>>

OtherCallerAbort(graph, batch_id) ==
    LET a == ServerAbort(srv, graph, batch_id)
    IN  /\ a.resp.status_code = 200
        /\ srv' = a.srv
        /\ UNCHANGED <<client, resolverCalls, signCalls, last, tokens,
                       stagedOk, committedOk, abortedOk>>

---------------------------------------------------------------------------

Init ==
    /\ client = NoClient
    /\ resolverCalls = 0
    /\ signCalls = 0
    /\ srv = ServerInit
    /\ last = NoCall
    /\ tokens = <<>>
    /\ stagedOk = <<>>
    /\ committedOk = {}
    /\ abortedOk = {}

\* Construction of the client.
Construct ==
    \E url \in Urls, psk \in Psks, boot \in BootOutcomes :
        __init__(url, psk, boot)

\* The batch operations of the client.
BatchCalls ==
    \/ \E g \in Graphs, u \in Updates, b \in BatchIds \cup {NONE} :
          add_to_batch(g, u, b)
    \/ \E g \in Graphs : list_batches(g)
    \/ \E g \in Graphs, b \in BatchIds : commit_batch(g, b)
    \/ \E g \in Graphs, b \in BatchIds : abort_batch(g, b)

\* The calls that exercise the transport layer with caller headers.
TransportCalls ==
    \/ \E g \in Graphs : cli_execute(g)
    \/ \E m \in TransportMethods, h \in CallerHeaders : transport(m, h)

OtherCallers ==
    \/ \E g \in Graphs, u \in Updates, b \in BatchIds \cup {NONE} :
          OtherCallerStage(g, u, b)
    \/ \E g \in Graphs, b \in BatchIds : OtherCallerAbort(g, b)

\* The batch protocol: one client and the other callers of the service.
NextBatch == Construct \/ BatchCalls \/ OtherCallers
SpecBatch == Init /\ [][NextBatch]_vars

\* The transport layer: every call of one client, no other caller.
NextTransport == Construct \/ BatchCalls \/ TransportCalls
SpecTransport == Init /\ [][NextTransport]_vars

\* Every call of the client together with the other callers.
Next == Construct \/ BatchCalls \/ TransportCalls \/ OtherCallers
Spec == Init /\ [][Next]_vars

---------------------------------------------------------------------------
\* Vocabulary of the properties.

Https == <<"h", "t", "t", "p", "s">>

BatchOps == {"add_to_batch", "list_batches", "commit_batch", "abort_batch"}

IsSuccess(status) == status \in 200..299

\* The error a batch operation raises for a response the service rejected.
RemoteRejection(call) == Raise(AttributeError, call.resp.text)

\* Whether the caller, who sees the exception's class, takes the outcome of a
\* call for a remote rejection.
LooksRejected(call) ==
    call.result.kind = "raise" /\ call.result.exc = AttributeError

\* Method, URL and query of a request: what tells two requests apart whatever
\* their signatures are.
RequestLine(req) == <<req.method, req.url, req.params>>

\* The changes of a settled batch that are part of its graph.
Merged(c) == {n \in c.changes : <<n, c.batch_id>> \in srv.graphs[c.graph]}

---------------------------------------------------------------------------
\* C1: a commit_batch(g, b) call that returns successfully found b staged and
\* leaves it committed, with every change staged in b part of graph g, and a
\* later successful list_batches(g) does not contain b.
C1_CommitMovesStagedToCommitted ==
    \A c \in committedOk :
        /\ c.was = "staged"
        /\ srv.batches[c.batch_id].state = "committed"
        /\ srv.batches[c.batch_id].graph = c.graph
        /\ Merged(c) = c.changes
        /\ (last.op = "list_batches" /\ last.graph = c.graph
                /\ last.result.kind = "return")
               => c.batch_id \notin last.result.value

\* A batch was committed by commit_batch, and a later list_batches of its
\* graph returned the batches still staged, without it.
C1_Witness ==
    \E c \in committedOk :
        /\ c.changes # {}
        /\ last.op = "list_batches" /\ last.graph = c.graph
        /\ last.result.kind = "return"
        /\ last.result.value # {}

\* C2: abort_batch(g, b) issues a DELETE on /graph/{g}/batch/{b}, a request
\* other than the one commit_batch(g, b) issues, and after it returned b is
\* aborted and no change staged in b is part of graph g.
C2_AbortDiscards ==
    /\ (last.op = "abort_batch" /\ last.sent) =>
          /\ last.req.method = "DELETE"
          /\ RequestLine(last.req) #
                RequestLine(commit_request(client, last.graph, last.batch_id,
                                           signCalls).req)
    /\ \A a \in abortedOk :
          /\ srv.batches[a.batch_id].state = "aborted"
          /\ Merged(a) = {}

\* C3 as stated: once commit_batch(g, b) has succeeded, every later
\* commit_batch(g, b) fails with the remote-rejection error.
C3_LaterCommitRejected ==
    (last.op = "commit_batch" /\ last.afterCommit) =>
        last.got /\ last.result = RemoteRejection(last)

\* C3 as amended: once commit_batch(g, b) has succeeded, no later
\* commit_batch(g, b) returns, and every later one that obtains a response
\* fails with the remote-rejection error.
C3_LaterCommitNeverSucceeds ==
    (last.op = "commit_batch" /\ last.afterCommit) =>
        /\ last.result.kind = "raise"
        /\ last.got => ~IsSuccess(last.resp.status_code)
                          /\ last.result = RemoteRejection(last)

\* A second commit_batch on a committed batch reached the service.
C3_Witness ==
    /\ last.op = "commit_batch" /\ last.afterCommit /\ last.got
    /\ last.result.kind = "raise"

\* C4: once abort_batch(g, b) has succeeded, a later add_to_batch(g, update,
\* batch_id=b) fails with the remote-rejection error, stages nothing and
\* leaves b aborted.
C4_StageAfterAbortRejected ==
    (last.op = "add_to_batch" /\ last.afterAbort) =>
        /\ last.got /\ last.result = RemoteRejection(last)
        /\ srv.batches[last.batch_id].state = "aborted"
        /\ \A a \in abortedOk :
              a.batch_id = last.batch_id =>
                  srv.batches[a.batch_id].changes = a.changes

\* C5: add_to_batch(g, u1) without batch_id issues its request and returns the
\* BatchId header of the response with the GraphUpdate; add_to_batch with
\* that id returns the same id, and no count of a later GraphUpdate of a batch
\* is below the count of an earlier one.
C5_StageReturnsBatchId ==
    /\ (last.op = "add_to_batch" /\ hasattr(client, "ca_cert_path")) =>
          last.sent
    /\ (last.op = "add_to_batch" /\ last.got
            /\ IsSuccess(last.resp.status_code)) =>
          /\ last.result.kind = "return"
          /\ <<"BatchId", last.result.value[1]>> \in last.resp.headers
          /\ last.batch_id # NONE => last.result.value[1] = last.batch_id
    /\ \A i, j \in 1..Len(stagedOk) :
          (i < j /\ stagedOk[i][1] = stagedOk[j][1]) =>
              \A f \in DOMAIN stagedOk[i][2] :
                  stagedOk[i][2][f] <= stagedOk[j][2][f]

\* C6: a client of an https endpoint sends a request only with the trust
\* anchor the resolver returned at construction as the session's verify; when
\* the bootstrap fails the construction fails and nothing is ever sent.
C6_EncryptedIsPinned ==
    /\ (last.sent /\ startswith(client.base_url, Https)) =>
          /\ resolverCalls = 1
          /\ hasattr(client, "ca_cert_path")
          /\ client.ca_cert_path =
                load_ca_cert(client.base_url, client.psk, "fetched").path
          /\ last.req.verify = client.ca_cert_path
    /\ client.exc = TrustAnchorUnavailable =>
          /\ client.constructed = "failed"
          /\ startswith(client.base_url, Https)
          /\ last = NoCall

\* A request went out to an https endpoint, verified against the anchor.
C6_Witness ==
    /\ last.sent /\ startswith(client.base_url, Https)
    /\ last.req.verify = "ca.pem"

\* C7: for a client of an endpoint that is not https the resolver is never
\* invoked, no trust anchor exists, and every transport call prepares its
\* session and sends its request.
C7_PlainEndpointSends ==
    (client.constructed = "yes" /\ ~startswith(client.base_url, Https)) =>
        /\ resolverCalls = 0
        /\ ~Truthy(client.ca_cert_path)
        /\ last.op \in TransportMethods => last.sent

\* C8: a request carries the signer's header exactly when the secret is set
\* and not empty; the header is the one the signer derived from that secret
\* during this very call, no two requests carry the same one, nothing of it is
\* kept on the client, and without a secret the signer is never invoked.
C8_SignedIffSecret ==
    /\ last.sent =>
          ("authorization" \in DOMAIN last.req.headers <=> Truthy(client.psk))
    /\ (last.sent /\ "authorization" \in DOMAIN last.req.headers) =>
          /\ last.req.headers["authorization"].key = client.psk
          /\ last.req.headers["authorization"].iat = signCalls
    /\ \A i, j \in 1..Len(tokens) : i # j => tokens[i] # tokens[j]
    /\ client.attrs \subseteq {"base_url", "psk", "ca_cert_path"}
    /\ ~Truthy(client.psk) => signCalls = 0

\* Two signed requests were sent.
C8_Witness ==
    /\ Len(tokens) = 2 /\ tokens[1] # tokens[2]
    /\ last.sent /\ last.req.headers["authorization"].key = "s3cret"

\* C9: the request of _get and _post carries, for every header the caller
\* supplies, the caller's value; cli_execute's request has the plain-text
\* content type.
C9_CallerHeadersWin ==
    /\ (last.op \in {"_get", "_post"} /\ last.sent) =>
          \A i \in 1..Len(last.headers) :
              /\ LowerName(last.headers[i][1]) \in DOMAIN last.req.headers
              /\ last.req.headers[LowerName(last.headers[i][1])] =
                    last.headers[i][2]
    /\ (last.op = "cli_execute" /\ last.sent) =>
          last.req.headers["content-type"] = "text/plain"

\* C10: a batch operation fails with the error of a remote rejection exactly
\* when a response was obtained and its status is no success; its other
\* failures are of another class.
C10_RejectionIffResponse ==
    last.op \in BatchOps =>
        (LooksRejected(last) <=>
            (last.got /\ ~IsSuccess(last.resp.status_code)))

====
